---- MODULE Spec2Model ----
(***************************************************************************)
(* Model of the reflow-oven firmware, Firmware/src/main.cpp: the profile   *)
(* loader (loadConfiguration), the button-triggered run loop (loop), the   *)
(* ramp set point computed in single-precision floating point and the      *)
(* relay decision.                                                         *)
(*                                                                         *)
(* Time is counted in ticks of 4 ms: every time constant of the program    *)
(* (100 ms, 1000 ms, 2^16 ms, 2^32 ms) is a multiple of 4 ms and the       *)
(* program only compares millis() with sums of such constants, so          *)
(* millis() >= x holds exactly when (millis() \div 4) >= x \div 4.         *)
(***************************************************************************)
EXTENDS Integers, Sequences, FiniteSets, TLC

RECURSIVE Pow2(_)
Pow2(n) == IF n = 0 THEN 1 ELSE 2 * Pow2(n - 1)

Two23 == Pow2(23)

Two24 == Pow2(24)

Two25 == Pow2(25)

Abs(n) == IF n < 0 THEN -n ELSE n

Min2(a, b) == IF a < b THEN a ELSE b

(***************************************************************************)
(* IEEE-754 binary32 ("float").  A finite value is s, m, e with value      *)
(* (-1)^s * m * 2^e, where m = 0 or 2^23 <= m < 2^24; results are rounded  *)
(* to nearest, ties to even.  The exponent range is never exhausted by the *)
(* program's quantities, so no subnormals or overflow are modelled.        *)
(***************************************************************************)
F32Fin(s, m, e) == [k |-> "fin", s |-> s, m |-> m, e |-> e]

F32Zero == F32Fin(0, 0, 0)

F32Inf(s) == [k |-> "inf", s |-> s, m |-> 0, e |-> 0]

F32NaN == [k |-> "nan", s |-> 0, m |-> 0, e |-> 0]

\* Round the exact value p * 2^e (plus a non-zero fraction of the last place
\* of p when st holds) to a float.
RECURSIVE F32Round(_, _, _, _)
F32Round(s, p, e, st) ==
    IF p = 0 THEN F32Zero
    ELSE IF p >= Two25 THEN F32Round(s, p \div 2, e + 1, st \/ (p % 2 = 1))
    ELSE IF p >= Two24
         THEN LET m  == p \div 2
                  up == (p % 2 = 1) /\ (st \/ (m % 2 = 1))
                  m2 == IF up THEN m + 1 ELSE m
              IN  IF m2 = Two24 THEN F32Fin(s, Two23, e + 2)
                                   ELSE F32Fin(s, m2, e + 1)
    ELSE IF p < Two23 THEN F32Round(s, 2 * p, e - 1, st)
    ELSE F32Fin(s, p, e)

\* (float) of an integer
F32FromInt(n) == F32Round(IF n < 0 THEN 1 ELSE 0, Abs(n), 0, FALSE)

\* n more quotient bits of r / dv by long division: <<quotient, remainder>>
RECURSIVE DivBits(_, _, _, _)
DivBits(q, r, dv, n) ==
    IF n = 0 THEN <<q, r>>
    ELSE IF 2 * r >= dv THEN DivBits(2 * q + 1, 2 * r - dv, dv, n - 1)
                        ELSE DivBits(2 * q, 2 * r, dv, n - 1)

\* x / y
F32Div(x, y) ==
    LET sg == (x.s + y.s) % 2
    IN  IF x.k = "nan" \/ y.k = "nan" THEN F32NaN
        ELSE IF x.k = "inf" THEN (IF y.k = "inf" THEN F32NaN ELSE F32Inf(sg))
        ELSE IF y.k = "inf" THEN F32Zero
        ELSE IF y.m = 0 THEN (IF x.m = 0 THEN F32NaN ELSE F32Inf(sg))
        ELSE IF x.m = 0 THEN F32Zero
        ELSE LET ge == x.m >= y.m
                 r0 == IF ge THEN x.m - y.m ELSE 2 * x.m - y.m
                 ex == IF ge THEN x.e - y.e ELSE x.e - y.e - 1
                 qr == DivBits(1, r0, y.m, 24)
             IN  F32Round(sg, qr[1], ex - 24, qr[2] # 0)

\* x * (float) n, for a natural number n small enough for x.m * n < 2^31
F32MulNat(x, n) ==
    IF x.k = "nan" THEN F32NaN
    ELSE IF x.k = "inf" THEN (IF n = 0 THEN F32NaN ELSE x)
    ELSE F32Round(x.s, x.m * n, x.e, FALSE)

\* p shifted right by d bits, a lost non-zero bit kept in the last place
ShiftJam(p, d) ==
    IF d > 30 THEN (IF p = 0 THEN 0 ELSE 1)
    ELSE LET q == p \div Pow2(d)
         IN  IF p % Pow2(d) # 0 /\ q % 2 = 0 THEN q + 1 ELSE q

\* x + y
F32Add(x, y) ==
    IF x.k = "nan" \/ y.k = "nan" THEN F32NaN
    ELSE IF x.k = "inf" THEN (IF y.k = "inf" /\ y.s # x.s THEN F32NaN ELSE x)
    ELSE IF y.k = "inf" THEN y
    ELSE IF x.m = 0 THEN y
    ELSE IF y.m = 0 THEN x
    ELSE LET big   == IF x.e >= y.e THEN x ELSE y
             small == IF x.e >= y.e THEN y ELSE x
             b     == big.m * 8
             sm    == ShiftJam(small.m * 8, big.e - small.e)
         IN  IF big.s = small.s THEN F32Round(big.s, b + sm, big.e - 3, FALSE)
             ELSE IF b >= sm THEN F32Round(big.s, b - sm, big.e - 3, FALSE)
             ELSE F32Round(small.s, sm - b, big.e - 3, FALSE)

\* magnitude of x below magnitude of y, both finite
MagLess(x, y) ==
    IF y.m = 0 THEN FALSE
    ELSE IF x.m = 0 THEN TRUE
    ELSE x.e < y.e \/ (x.e = y.e /\ x.m < y.m)

\* x < y
F32Less(x, y) ==
    IF x.k = "nan" \/ y.k = "nan" THEN FALSE
    ELSE IF x.k = "inf" THEN x.s = 1 /\ ~(y.k = "inf" /\ y.s = 1)
    ELSE IF y.k = "inf" THEN y.s = 0
    ELSE IF x.m = 0 /\ y.m = 0 THEN FALSE
    ELSE IF x.m = 0 THEN y.s = 0
    ELSE IF y.m = 0 THEN x.s = 1
    ELSE IF x.s # y.s THEN x.s = 1
    ELSE IF x.s = 0 THEN MagLess(x, y)
    ELSE MagLess(y, x)

F32None == [k |-> "none", s |-> 0, m |-> 0, e |-> 0]

\* the float q / 4, for a natural number q
Quarter(q) == F32Round(0, q, -2, FALSE)

(***************************************************************************)
(* Program constants and the units of the model.                           *)
(***************************************************************************)
MAX_ENTIES == 10

\* one tick of the model is 4 ms
MsPerTick == Pow2(2)

SampleTicks == 1000 \div MsPerTick

DelayTicks == 100 \div MsPerTick

\* millis() is an unsigned long of 32 bits: 2^32 ms are 2^30 ticks
Wrap32 == Pow2(30)

\* the ambient start temperature of the first phase
AmbientOffset == 25

(***************************************************************************)
(* Bounds of the model.                                                    *)
(***************************************************************************)
\* longest Time / Temperature array of the enumerated profile files
MaxLen == 2

\* most samples followed within one phase
MaxElapsed == 70

TimeValues == {0, 1}

TemperatureValues == {0, 100}

SeqsUpTo(S, n) == UNION {[1..l -> S] : l \in 0..n}

\* profile files with arrays of equal length
PairedDocs ==
    {[Time |-> d[1], Temperature |-> d[2]] :
        d \in {p \in SeqsUpTo(TimeValues, MaxLen) \X SeqsUpTo(TemperatureValues, MaxLen) :
                  Len(p[1]) = Len(p[2])}}

\* the scenario of the specification, a long phase, a ramp whose quotient is
\* inexact in binary, arrays of different lengths, and arrays with more
\* entries than Config has room for
ExtraDocs ==
    { [Time |-> <<10, 5>>, Temperature |-> <<100, 50>>],
      [Time |-> <<66>>,    Temperature |-> <<100>>],
      [Time |-> <<1, 7>>,  Temperature |-> <<0, 57>>],
      [Time |-> <<2, 2>>,  Temperature |-> <<100, 50>>],
      [Time |-> <<1, 1>>,  Temperature |-> <<100>>],
      [Time |-> <<0, 0, 0, 0, 0, 0, 0, 0, 0, 1, 0>>,
       Temperature |-> <<10, 20, 30, 40, 50, 60, 70, 80, 90, 100, 110, 120>>] }

Docs == PairedDocs \cup ExtraDocs

\* values of millis() when a run is triggered: just after power-up, and half
\* a second before the 32-bit counter wraps
StartClocks == {0, Wrap32 - SampleTicks \div 2}

\* a trigger one and a half seconds before the 32-bit counter wraps
LateClock == Wrap32 - 3 * (SampleTicks \div 2)

\* time that passes between two consecutive steps of the run loop
Advance == {0, SampleTicks \div 2}

\* values the thermocouple driver returns: degrees in steps of 0.25, or NaN
\* with an open thermocouple
SensorValues == {F32NaN, Quarter(0), Quarter(228), Quarter(400)}

\* widths of int the firmware can be built with (AVR: 16, ARM/ESP: 32)
IntWidths == {16, 32}

(***************************************************************************)
(* loadConfiguration                                                       *)
(***************************************************************************)
\* the number of phases the profile file yields
EntryCount(file) == Min2(MAX_ENTIES, Min2(Len(file.Time), Len(file.Temperature)))

\* Config config; a global object, zero-initialised
ZeroConfig ==
    [time              |-> [i \in 0..(MAX_ENTIES - 1) |-> 0],
     temperature       |-> [i \in 0..(MAX_ENTIES - 1) |-> 0],
     number_of_entries |-> 0]

LoadCondNoCap(i, file) == i < Len(file.Time) /\ i < Len(file.Temperature)

\* i < MAX_ENTIES && i < doc["Time"].size() && i < doc["Temperature"].size()
LoadCond(i, file) == i < MAX_ENTIES /\ i < Len(file.Time) /\ i < Len(file.Temperature)

\* the for statement of loadConfiguration, from index i on
RECURSIVE LoadLoop(_, _, _)
LoadLoop(file, i, cfg) ==
    IF LoadCond(i, file)
    THEN LoadLoop(file, i + 1,
                  [cfg EXCEPT !.time[i] = file.Time[i + 1],
                              !.temperature[i] = file.Temperature[i + 1],
                              !.number_of_entries = @ + 1])
    ELSE cfg

LoadConfiguration(file) == LoadLoop(file, 0, ZeroConfig)

(***************************************************************************)
(* The arithmetic of loop()                                                *)
(***************************************************************************)
\* config.time[heatingPhase] * 1000, in the width of int, in ticks
DurationTicks(bits, t) ==
    IF bits = 16 THEN ((t * 1000) % 65536) \div MsPerTick
                 ELSE (t * 1000) \div MsPerTick

\* config.temperature[heatingPhase] - temperatureOffset, in the width of int:
\* unsigned and modulo 2^16 where int has 16 bits
TemperatureSpan(bits, target, offset) ==
    IF bits = 16 THEN (target - offset) % 65536 ELSE target - offset

Gain(bits, target, offset, t) ==
    F32Div(F32FromInt(TemperatureSpan(bits, target, offset)), F32FromInt(t))

SetPoint(bits, target, offset, t, elapsed) ==
    F32Add(F32MulNat(Gain(bits, target, offset, t), elapsed), F32FromInt(offset))

RelayDecision(temp, sp) == F32Less(temp, sp)

LoopCondInclusive(h, n) == h <= n

\* heatingPhase < config.number_of_entries
LoopCond(h, n) == h < n

NextPhaseSkip(h) == h + 2

\* heatingPhase++
NextPhase(h) == h + 1

StartOffset(cfg, h) == IF h # 0 THEN cfg.temperature[h - 1] ELSE AmbientOffset

SampleDue(now, next) == now >= next

PhaseOver(now, finish) == now >= finish


(***************************************************************************)
(* State                                                                   *)
(***************************************************************************)
VARIABLES
    intBits,        \* width of int of the build
    triggerClock,   \* millis() at the moment a run is triggered
    doc,            \* the JSON document of the profile file
    config,         \* the global Config
    relay,          \* level of the relay pin: TRUE is HIGH, heater on
    button,         \* level last read from the button pin: TRUE is HIGH, released
    clock,          \* millis(), in ticks
    pc,             \* position of loop()
    heatingPhase, nextSampleTime, finishHeatingPhaseTime,
    temperatureOffset, timeExpiredSincePhaseStart,
    temperature, setPoint,   \* the floats of the sample block, F32None outside it
    \* history of the current run
    aborted,        \* the button was read as pressed inside a phase
    visited,        \* the phases entered, in order
    lastWrite,      \* last value written to the relay: "none", "ON", "OFF"
    sensorRead,     \* the thermocouple was read
    phaseTime,      \* ticks that really passed since the phase was entered
    heldSinceAbort  \* the button was read as pressed inside a phase, and every
                    \* read of the button since then found it pressed

vars == <<intBits, triggerClock, doc, config, relay, button, clock, pc, heatingPhase, nextSampleTime,
          finishHeatingPhaseTime, temperatureOffset, timeExpiredSincePhaseStart,
          temperature, setPoint, aborted, visited, lastWrite, sensorRead,
          phaseTime, heldSinceAbort>>

FinalRelayKept == relay

\* the level written when the for statement is left: LOW
FinalRelay == FALSE

\* setup(): the relay pin becomes an output at LOW, the profile is loaded
InitAt(clocks) ==
    /\ intBits \in IntWidths
    /\ triggerClock \in clocks
    /\ doc \in Docs
    /\ config = LoadConfiguration(doc)
    /\ relay = FALSE
    /\ button = TRUE
    /\ clock = 0
    /\ pc = "waitPress"
    /\ heatingPhase = 0
    /\ nextSampleTime = 0
    /\ finishHeatingPhaseTime = 0
    /\ temperatureOffset = 0
    /\ timeExpiredSincePhaseStart = 0
    /\ temperature = F32None
    /\ setPoint = F32None
    /\ aborted = FALSE
    /\ visited = <<>>
    /\ lastWrite = "none"
    /\ sensorRead = FALSE
    /\ phaseTime = 0
    /\ heldSinceAbort = FALSE

Init == InitAt(StartClocks)

\* the for statement: test heatingPhase < number_of_entries with heatingPhase = h.
\* The variables declared in the body of the for statement are out of scope here.
ForStep(h) ==
    /\ heatingPhase' = h
    /\ pc' = IF LoopCond(h, config.number_of_entries) THEN "phaseInit" ELSE "relayOff"
    /\ nextSampleTime' = 0
    /\ finishHeatingPhaseTime' = 0
    /\ temperatureOffset' = 0

\* while (digitalRead(buttonInput)); lcd.print("Start"); delay(100);
WaitPress ==
    /\ pc = "waitPress"
    /\ \E level \in BOOLEAN :
          /\ button' = level
          /\ pc' = IF level THEN "waitPress" ELSE "waitRelease"
          /\ heldSinceAbort' = (heldSinceAbort /\ ~level)
    /\ UNCHANGED <<intBits, triggerClock, doc, config, relay, clock, heatingPhase, nextSampleTime,
                   finishHeatingPhaseTime, temperatureOffset,
                   timeExpiredSincePhaseStart, temperature, setPoint, aborted,
                   visited, lastWrite, sensorRead, phaseTime>>

\* while (!digitalRead(buttonInput)); delay(100); for (heatingPhase = 0; ...
\* The wait may last any time: the run starts with millis() = triggerClock.
WaitRelease ==
    /\ pc = "waitRelease"
    /\ \E level \in BOOLEAN :
          /\ button' = level
          /\ IF level
             THEN /\ ForStep(0)
                  /\ clock' = triggerClock
                  /\ aborted' = FALSE
                  /\ visited' = <<>>
                  /\ lastWrite' = "none"
                  /\ sensorRead' = FALSE
                  /\ phaseTime' = 0
                  /\ heldSinceAbort' = FALSE
             ELSE UNCHANGED <<pc, heatingPhase, clock, aborted, visited, lastWrite,
                              sensorRead, phaseTime, nextSampleTime,
                              finishHeatingPhaseTime, temperatureOffset,
                              heldSinceAbort>>
    /\ UNCHANGED <<intBits, triggerClock, doc, config, relay, timeExpiredSincePhaseStart, temperature,
                   setPoint>>

\* entry of a phase: the two millis() calls (consecutive statements, taken to
\* read the same tick), the start temperature, elapsed = 0
PhaseInit ==
    /\ pc = "phaseInit"
    /\ \E dt \in Advance :
          LET now == (clock + dt) % Wrap32
          IN  /\ nextSampleTime' = (now + SampleTicks) % Wrap32
              /\ finishHeatingPhaseTime' =
                    (now + DurationTicks(intBits, config.time[heatingPhase])) % Wrap32
              /\ clock' = now
              /\ phaseTime' = 0
    /\ temperatureOffset' = StartOffset(config, heatingPhase)
    /\ timeExpiredSincePhaseStart' = 0
    /\ visited' = Append(visited, heatingPhase)
    /\ pc' = "sampleTest"
    /\ UNCHANGED <<intBits, triggerClock, doc, config, relay, button, heatingPhase, temperature,
                   setPoint, aborted, lastWrite, sensorRead, heldSinceAbort>>

\* if (millis() >= nextSampleTime) { ... digitalWrite(relayOutput, temperature < setPoint); }
SampleTest ==
    /\ pc = "sampleTest"
    /\ \E dt \in Advance :
          LET now == (clock + dt) % Wrap32
          IN  /\ clock' = now
              /\ phaseTime' = phaseTime + dt
              /\ IF SampleDue(now, nextSampleTime)
                 THEN /\ timeExpiredSincePhaseStart < MaxElapsed
                      /\ nextSampleTime' = (nextSampleTime + SampleTicks) % Wrap32
                      /\ timeExpiredSincePhaseStart' = (timeExpiredSincePhaseStart + 1) % 65536
                      /\ \E t \in SensorValues : temperature' = t
                      /\ setPoint' = SetPoint(intBits, config.temperature[heatingPhase],
                                              temperatureOffset, config.time[heatingPhase],
                                              timeExpiredSincePhaseStart')
                      /\ relay' = RelayDecision(temperature', setPoint')
                      /\ lastWrite' = IF relay' THEN "ON" ELSE "OFF"
                      /\ sensorRead' = TRUE
                 ELSE UNCHANGED <<nextSampleTime, timeExpiredSincePhaseStart, temperature,
                                  setPoint, relay, lastWrite, sensorRead>>
    /\ pc' = "finishTest"
    /\ UNCHANGED <<intBits, triggerClock, doc, config, button, heatingPhase, finishHeatingPhaseTime,
                   temperatureOffset, aborted, visited, heldSinceAbort>>

\* if (millis() >= finishHeatingPhaseTime) break;
FinishTest ==
    /\ pc = "finishTest"
    /\ \E dt \in Advance :
          LET now == (clock + dt) % Wrap32
          IN  /\ clock' = now
              /\ phaseTime' = phaseTime + dt
              /\ IF PhaseOver(now, finishHeatingPhaseTime)
                 THEN ForStep(NextPhase(heatingPhase))
                 ELSE /\ pc' = "abortTest"
                      /\ UNCHANGED <<heatingPhase, nextSampleTime,
                                     finishHeatingPhaseTime, temperatureOffset>>
    /\ temperature' = F32None
    /\ setPoint' = F32None
    /\ UNCHANGED <<intBits, triggerClock, doc, config, relay, button, timeExpiredSincePhaseStart,
                   aborted, visited, lastWrite, sensorRead, heldSinceAbort>>

\* an abort that also switches the relay off
AbortTestRelayOff ==
    /\ pc = "abortTest"
    /\ \E level \in BOOLEAN :
          /\ button' = level
          /\ heldSinceAbort' = ~level
          /\ IF ~level
             THEN /\ aborted' = TRUE
                  /\ relay' = FALSE
                  /\ clock' = (clock + DelayTicks) % Wrap32
                  /\ phaseTime' = phaseTime + DelayTicks
                  /\ ForStep(NextPhase(heatingPhase))
             ELSE /\ pc' = "sampleTest"
                  /\ UNCHANGED <<relay, aborted, clock, phaseTime, heatingPhase,
                                 nextSampleTime, finishHeatingPhaseTime,
                                 temperatureOffset>>
    /\ UNCHANGED <<intBits, triggerClock, doc, config, timeExpiredSincePhaseStart, temperature,
                   setPoint, visited, lastWrite, sensorRead>>

\* if (!digitalRead(buttonInput)) { lcd.print("Aborted"); delay(100); break; }
AbortTest ==
    /\ pc = "abortTest"
    /\ \E level \in BOOLEAN :
          /\ button' = level
          /\ heldSinceAbort' = ~level
          /\ IF ~level
             THEN /\ aborted' = TRUE
                  /\ clock' = (clock + DelayTicks) % Wrap32
                  /\ phaseTime' = phaseTime + DelayTicks
                  /\ ForStep(NextPhase(heatingPhase))
             ELSE /\ pc' = "sampleTest"
                  /\ UNCHANGED <<aborted, clock, phaseTime, heatingPhase,
                                 nextSampleTime, finishHeatingPhaseTime,
                                 temperatureOffset>>
    /\ UNCHANGED <<intBits, triggerClock, doc, config, relay, timeExpiredSincePhaseStart, temperature,
                   setPoint, visited, lastWrite, sensorRead>>

\* digitalWrite(relayOutput, LOW); and loop() returns: its variables are gone,
\* and the time that passes until the next run is not followed
RelayOff ==
    /\ pc = "relayOff"
    /\ relay' = FinalRelay
    /\ lastWrite' = IF relay' THEN "ON" ELSE "OFF"
    /\ pc' = "waitPress"
    /\ heatingPhase' = 0
    /\ timeExpiredSincePhaseStart' = 0
    /\ clock' = 0
    /\ phaseTime' = 0
    /\ UNCHANGED <<intBits, triggerClock, doc, config, button, nextSampleTime,
                   finishHeatingPhaseTime, temperatureOffset,
                   temperature, setPoint, aborted,
                   visited, sensorRead, heldSinceAbort>>

Next ==
    \/ WaitPress
    \/ WaitRelease
    \/ PhaseInit
    \/ SampleTest
    \/ FinishTest
    \/ AbortTest
    \/ RelayOff

Spec == Init /\ [][Next]_vars

HasZeroDuration == \E i \in 0..(config.number_of_entries - 1) : config.time[i] = 0

\* The nominal use: every duration of the profile is positive and the runs are
\* triggered right after power-up, far from the wrap of millis().
InitNominal == Init /\ triggerClock = 0 /\ ~HasZeroDuration

SpecNominal == InitNominal /\ [][Next]_vars

\* Runs triggered shortly before millis() wraps, every duration positive.
InitNearWrap == InitAt({LateClock}) /\ ~HasZeroDuration

SpecNearWrap == InitNearWrap /\ [][Next]_vars

(***************************************************************************)
(* Vocabulary of the claims                                                *)
(***************************************************************************)
Idle == pc \in {"waitPress", "waitRelease"}

InPhase == pc \in {"sampleTest", "finishTest", "abortTest"}

PhaseDuration == config.time[heatingPhase]

PhaseTarget == config.temperature[heatingPhase]

\* a sample was taken in the step that led to this state
JustSampled == pc = "finishTest" /\ temperature # F32None

IsScenario ==
    /\ config.number_of_entries = 2
    /\ config.time[0] = 10 /\ config.temperature[0] = 100
    /\ config.time[1] = 5 /\ config.temperature[1] = 50

\* the measured temperature in quarters of a degree
Quarters(x) == IF x.m = 0 THEN 0 ELSE x.m \div Pow2(-(x.e + 2))

\* measured < start + (target - start) / duration * elapsed, in exact arithmetic
ExactlyBelow(x, start, target, duration, elapsed) ==
    /\ x.k = "fin"
    /\ Quarters(x) * duration < 4 * (start * duration + (target - start) * elapsed)

(***************************************************************************)
(* C1: whenever the runner waits for the start trigger, before the first   *)
(* run and after any run, the relay is OFF, and the last write of a run    *)
(* that has ended was OFF.                                                 *)
(***************************************************************************)
FailSafeOnTermination ==
    Idle => (relay = FALSE /\ lastWrite \in {"none", "OFF"})

RunEndedWithRelayOff ==
    /\ pc = "waitPress"
    /\ lastWrite = "OFF"
    /\ sensorRead
    /\ aborted
    /\ Len(visited) = 2

(***************************************************************************)
(* C2: once the button has been read as pressed inside a phase, the run    *)
(* is over: no phase is entered or continued before the runner is idle.    *)
(***************************************************************************)
AbortEndsRun ==
    aborted => pc \notin {"phaseInit", "sampleTest", "finishTest", "abortTest"}

(***************************************************************************)
(* C3: after an observed abort the relay is never ON while the runner      *)
(* enters or polls inside a later phase.                                   *)
(***************************************************************************)
AbortForcesRelayOff ==
    (aborted /\ (pc = "phaseInit" \/ InPhase)) => relay = FALSE

(***************************************************************************)
(* C4: in a run that is not aborted the phases entered so far are          *)
(* 0, 1, 2, ... in this order, each once, the phase being run is the last  *)
(* one entered, and the run is left only when all N phases were entered.   *)
(***************************************************************************)
PhaseOrder ==
    ~aborted =>
        /\ \A i \in 1..Len(visited) : visited[i] = i - 1
        /\ Len(visited) <= config.number_of_entries
        /\ InPhase => heatingPhase = Len(visited) - 1
        /\ pc = "phaseInit" => heatingPhase = Len(visited)
        /\ pc = "relayOff" => Len(visited) = config.number_of_entries

AllPhasesVisited ==
    /\ pc = "relayOff"
    /\ ~aborted
    /\ visited = <<0, 1>>

(***************************************************************************)
(* C5: at every sample of a phase with a positive duration the relay is    *)
(* written ON exactly when the measured temperature is strictly below      *)
(* start + (target - start) / duration * elapsed.                          *)
(***************************************************************************)
BangBangAgainstRamp ==
    (JustSampled /\ PhaseDuration > 0) =>
        (relay = ExactlyBelow(temperature, temperatureOffset, PhaseTarget,
                              PhaseDuration, timeExpiredSincePhaseStart))

(***************************************************************************)
(* C6: for the phase being run, if its duration is positive, the set point *)
(* is the start temperature at elapsed 0, the target at elapsed =          *)
(* duration, and monotonic in between in the direction of the ramp.        *)
(***************************************************************************)
InterpolationLinear ==
    (InPhase /\ PhaseDuration > 0) =>
        LET sp(k) == SetPoint(intBits, PhaseTarget, temperatureOffset, PhaseDuration, k)
        IN  /\ sp(0) = F32FromInt(temperatureOffset)
            /\ sp(PhaseDuration) = F32FromInt(PhaseTarget)
            /\ \A k \in 0..(PhaseDuration - 1) :
                  /\ PhaseTarget > temperatureOffset => ~F32Less(sp(k + 1), sp(k))
                  /\ PhaseTarget < temperatureOffset => ~F32Less(sp(k), sp(k + 1))
                  /\ PhaseTarget = temperatureOffset => sp(k + 1) = sp(k)

(***************************************************************************)
(* C7: the ramp starts at 25 in phase 0 and at the target of phase i-1 in  *)
(* phase i > 0; for the profile (10 s, 100), (5 s, 50) the set point of    *)
(* the fifth sample is 62.5 in phase 0 and 50 in phase 1.                  *)
(***************************************************************************)
ScenarioSetPoints ==
    /\ InPhase =>
          temperatureOffset = (IF heatingPhase = 0 THEN 25
                               ELSE config.temperature[heatingPhase - 1])
    /\ (IsScenario /\ JustSampled /\ timeExpiredSincePhaseStart = 5) =>
          /\ heatingPhase = 0 => setPoint = F32Round(0, 125, -1, FALSE)
          /\ heatingPhase = 1 => setPoint = F32FromInt(50)

(***************************************************************************)
(* C8, as stated: with an empty profile no sensor read and no actuator     *)
(* write ever happens.                                                     *)
(***************************************************************************)
EmptyProfileNoActuatorWrite ==
    config.number_of_entries = 0 => (~sensorRead /\ lastWrite = "none")

(***************************************************************************)
(* C8, amended: with an empty profile a start trigger leads straight to    *)
(* the end of the run: no phase is entered, the sensor is never read, the  *)
(* relay is never ON, and the only actuator write is the OFF at the end    *)
(* of the run.                                                             *)
(***************************************************************************)
EmptyProfileOnlyFinalOff ==
    config.number_of_entries = 0 =>
        /\ Idle \/ pc = "relayOff"
        /\ visited = <<>>
        /\ ~sensorRead
        /\ relay = FALSE
        /\ lastWrite \in {"none", "OFF"}
        /\ pc = "relayOff" => lastWrite = "none"

EmptyRunDone ==
    /\ config.number_of_entries = 0
    /\ pc = "waitPress"
    /\ lastWrite = "OFF"

(***************************************************************************)
(* C9: with a profile that has a phase of duration 0 the runner never      *)
(* leaves Idle: no phase is entered and no sample is taken.                *)
(***************************************************************************)
ZeroDurationRejected ==
    HasZeroDuration => (Idle /\ visited = <<>> /\ ~sensorRead)

(***************************************************************************)
(* C10: a phase is left by timeout only when its duration has really       *)
(* passed since the phase was entered.                                     *)
(***************************************************************************)
DeadlineNotShortened ==
    [][(pc = "finishTest" /\ pc' # "abortTest") =>
          phaseTime' >= PhaseDuration * SampleTicks]_vars

(***************************************************************************)
(* C11: when a phase is left because its deadline was reached, no sample   *)
(* is due and untaken at the instant of the deadline test: the sample of   *)
(* that second was taken earlier in the same pass of the run loop.         *)
(***************************************************************************)
TimeoutAfterDueSample ==
    [][(pc = "finishTest" /\ pc' # "abortTest") =>
          ~SampleDue(clock', nextSampleTime)]_vars

(***************************************************************************)
(* C12: a phase is left no later than when its duration has elapsed: the   *)
(* run loop goes on after the deadline test only while less than the       *)
(* duration of the phase has passed since the phase was entered.           *)
(***************************************************************************)
PhaseLeftInTime ==
    [][(pc = "finishTest" /\ pc' = "abortTest") =>
          phaseTime' < PhaseDuration * SampleTicks]_vars

(***************************************************************************)
(* C13: whenever a set point is computed the elapsed seconds counter of    *)
(* the phase is at most the duration of the phase: the set point is never  *)
(* extrapolated beyond the target of the phase.                            *)
(***************************************************************************)
ElapsedWithinDuration ==
    JustSampled => timeExpiredSincePhaseStart <= PhaseDuration

(***************************************************************************)
(* C14: a press of the button that aborted a run does not start a run:     *)
(* when the wait for the start trigger ends, the button has been read as   *)
(* released at least once since the abort was observed.                    *)
(***************************************************************************)
AbortPressStartsNothing ==
    [][(pc = "waitRelease" /\ pc' # "waitRelease") => ~heldSinceAbort]_vars

(***************************************************************************)
(* C15: the gain is never computed with a divisor of zero: no sample is    *)
(* taken in a phase whose duration is 0.                                   *)
(***************************************************************************)
GainDivisorNonZero ==
    JustSampled => PhaseDuration # 0

(***************************************************************************)
(* C16: the loaded profile holds exactly min(10, length of Time, length    *)
(* of Temperature) phases, taken in order from the front of both arrays,   *)
(* and wherever loop() reads the arrays of the profile, the index of the   *)
(* current phase, and the index before it when the phase is not the first, *)
(* lies in 0 .. number_of_entries - 1.                                     *)
(***************************************************************************)
ProfileWithinBounds ==
    /\ config.number_of_entries = EntryCount(doc)
    /\ \A i \in 0..(config.number_of_entries - 1) :
          /\ config.time[i] = doc.Time[i + 1]
          /\ config.temperature[i] = doc.Temperature[i + 1]
    /\ (pc = "phaseInit" \/ InPhase) =>
          /\ heatingPhase \in 0..(config.number_of_entries - 1)
          /\ heatingPhase # 0 => (heatingPhase - 1) \in 0..(config.number_of_entries - 1)

LastSlotSampled ==
    /\ Len(doc.Time) > MAX_ENTIES
    /\ Len(doc.Temperature) > Len(doc.Time)
    /\ heatingPhase = MAX_ENTIES - 1
    /\ JustSampled
    /\ ~aborted

(***************************************************************************)
(* C17: the level of the relay changes only in a step that takes a sample  *)
(* or in the write at the end of the run; the polling of the button, the   *)
(* start of a run, the entry of a phase, the passes of the run loop        *)
(* without a sample, the end of a phase and an observed abort leave it as  *)
(* it is, and no step changes the loaded profile.                          *)
(***************************************************************************)
RelayChangesOnlyAtSampleOrEnd ==
    [][/\ relay' # relay => (JustSampled' \/ pc = "relayOff")
       /\ config' = config]_vars

RelayKeptAcrossPhases ==
    /\ pc = "sampleTest"
    /\ heatingPhase = 1
    /\ timeExpiredSincePhaseStart = 0
    /\ relay
    /\ ~aborted

TypeOK ==
    /\ relay \in BOOLEAN
    /\ pc \in {"waitPress", "waitRelease", "phaseInit", "sampleTest", "finishTest",
               "abortTest", "relayOff"}
    /\ heatingPhase \in 0..MAX_ENTIES
    /\ clock \in 0..(Wrap32 - 1)
====
